---------------------------- MODULE Spec2Model ----------------------------
(***************************************************************************)
(* A model of scrapeSchoolData.py: the transport retry policy, the         *)
(* landing-page extraction, and the orchestration of the scraping steps    *)
(* (Step 2 landing pages, Step 3 link gathering, Step 4 link scraping)     *)
(* with their table updates and artifact writes.                           *)
(*                                                                         *)
(* Text is a sequence of characters.  Characters outside ASCII are written *)
(* as tokens: ouml, Ouml (o with diaeresis), gbreve, Gbreve (g with        *)
(* breve), scedil, Scedil (s with cedilla), inodot (dotless i), Idot       *)
(* (capital dotted I), uuml, Uuml, combdot (U+0307, combining dot above).  *)
(* Python's None is the empty tuple; a present value v is <<v>>.           *)
(***************************************************************************)
EXTENDS Integers, Sequences, FiniteSets, TLC

None == <<>>

Some(v) == <<v>>

(***************************************************************************)
(* Text primitives (str.strip, int, str.lower, in, str.split).             *)
(***************************************************************************)
Whitespace == {" ", "nl", "tab"}

RECURSIVE LStrip(_)
LStrip(s) ==
    IF s # <<>> /\ Head(s) \in Whitespace THEN LStrip(Tail(s)) ELSE s

RECURSIVE RStrip(_)
RStrip(s) ==
    IF s # <<>> /\ s[Len(s)] \in Whitespace
    THEN RStrip(SubSeq(s, 1, Len(s) - 1))
    ELSE s

Strip(s) == RStrip(LStrip(s))

Digits == <<"0", "1", "2", "3", "4", "5", "6", "7", "8", "9">>

IsDigit(c) == \E i \in 1..10 : Digits[i] = c

DigitVal(c) == (CHOOSE i \in 1..10 : Digits[i] = c) - 1

RECURSIVE DigitsValue(_, _)
DigitsValue(s, acc) ==
    IF s = <<>> THEN acc ELSE DigitsValue(Tail(s), 10 * acc + DigitVal(Head(s)))

\* int(text): surrounding whitespace is ignored, one optional sign, then
\* decimal digits only; anything else is a ValueError (None here).
ParseInt(text) ==
    LET t == Strip(text)
        signed == t # <<>> /\ Head(t) \in {"+", "-"}
        body == IF signed THEN Tail(t) ELSE t
    IN  IF body = <<>> \/ \E i \in 1..Len(body) : ~IsDigit(body[i])
        THEN None
        ELSE Some(IF signed /\ Head(t) = "-"
                  THEN 0 - DigitsValue(body, 0)
                  ELSE DigitsValue(body, 0))

Uppers ==
    <<"A","B","C","D","E","F","G","H","I","J","K","L","M","N","O","P","Q","R",
      "S","T","U","V","W","X","Y","Z","Ouml","Gbreve","Scedil","Uuml","Ccedil">>

Lowers ==
    <<"a","b","c","d","e","f","g","h","i","j","k","l","m","n","o","p","q","r",
      "s","t","u","v","w","x","y","z","ouml","gbreve","scedil","uuml","ccedil">>

\* str.lower() of one character; the capital dotted I lowers to "i" followed
\* by a combining dot, the plain capital I to a plain "i".
LowerChar(c) ==
    IF c = "Idot" THEN <<"i", "combdot">>
    ELSE IF \E i \in 1..Len(Uppers) : Uppers[i] = c
    THEN <<Lowers[CHOOSE i \in 1..Len(Uppers) : Uppers[i] = c]>>
    ELSE <<c>>

RECURSIVE Lower(_)
Lower(s) == IF s = <<>> THEN <<>> ELSE LowerChar(Head(s)) \o Lower(Tail(s))

\* sub in s
Contains(sub, s) ==
    \E i \in 1..(Len(s) - Len(sub) + 1) : SubSeq(s, i, i + Len(sub) - 1) = sub

\* s.split(":")[-1]
AfterLastColon(s) ==
    LET colons == {i \in 1..Len(s) : s[i] = ":"}
    IN  IF colons = {} THEN s
        ELSE LET last == CHOOSE i \in colons : \A j \in colons : j <= i
             IN  SubSeq(s, last + 1, Len(s))

RECURSIVE Concat(_)
Concat(texts) == IF texts = <<>> THEN <<>> ELSE Head(texts) \o Concat(Tail(texts))

(***************************************************************************)
(* The fixed strings of the source.                                        *)
(***************************************************************************)
DownPhrase ==
    <<"a","d","r","e","s","i"," ","s","u","n","u","c","u","l","a","r","inodot",
      "m","inodot","z"," ","uuml","z","e","r","i","n","d","e"," ","b","a","r",
      "inodot","n","d","inodot","r","inodot","l","m","a","m","a","k","t","a",
      "d","inodot","r">>

KwOgrenciSayisi ==
    <<"ouml","gbreve","r","e","n","c","i"," ","s","a","y","inodot","s","inodot">>

KwOgrenci == <<"ouml","gbreve","r","e","n","c","i">>

KwOgretimSekli ==
    <<"ouml","gbreve","r","e","t","i","m"," ","scedil","e","k","l","i">>

(***************************************************************************)
(* A parsed document is the sequence of its nodes in document order.  A    *)
(* node has a kind ("sayi": an element of class okulumuz-sayi, "tr": a     *)
(* table row, "div": a div of class col-sm-4, "a": an anchor with an href, *)
(* "p": any other text), the texts of its cells (the td cells of a row,    *)
(* one text otherwise) and, for an anchor, its href.                       *)
(***************************************************************************)
Node(kind, cells) == [kind |-> kind, cells |-> cells, href |-> None]

Anchor(text, href) == [kind |-> "a", cells |-> <<text>>, href |-> Some(href)]

NodeText(n) == Concat(n.cells)

RECURSIVE SoupText(_)
SoupText(doc) == IF doc = <<>> THEN <<>> ELSE NodeText(Head(doc)) \o SoupText(Tail(doc))

RECURSIVE FindAll(_, _)
FindAll(doc, kind) ==
    IF doc = <<>> THEN <<>>
    ELSE (IF Head(doc).kind = kind THEN <<Head(doc)>> ELSE <<>>)
         \o FindAll(Tail(doc), kind)

Result(url, ogrenci, ogretim_sekli) ==
    [WEB_ADRES |-> url, ogrenci |-> ogrenci, ogretim_sekli |-> ogretim_sekli]

\* for tag in specific_tags: the enrollment after the loop over the
\* okulumuz-sayi elements, entered with the value ogrenci
RECURSIVE ScanSpecificTags(_, _)
ScanSpecificTags(tags, ogrenci) ==
    IF tags = <<>> THEN ogrenci
    ELSE LET number == ParseInt(Strip(NodeText(Head(tags))))
         IN  ScanSpecificTags(Tail(tags),
                              IF number # None THEN number ELSE ogrenci)

RowMatches(cells) ==
    /\ Len(cells) = 3
    /\ \/ Contains(KwOgrenciSayisi, Lower(cells[1]))
       \/ Contains(KwOgrenci, Lower(cells[1]))

\* for row in rows: the enrollment after the loop over the table rows
RECURSIVE ScanRowsResetting(_, _)
ScanRowsResetting(rows, ogrenci) ==
    IF rows = <<>> THEN ogrenci
    ELSE LET cells == Head(rows).cells
         IN  ScanRowsResetting(Tail(rows),
                               IF RowMatches(cells)
                               THEN ParseInt(Strip(cells[3])) ELSE ogrenci)

RECURSIVE ScanRows(_, _)
ScanRows(rows, ogrenci) ==
    IF rows = <<>> THEN ogrenci
    ELSE LET cells == Head(rows).cells
             number == IF RowMatches(cells)
                       THEN ParseInt(Strip(cells[3])) ELSE None
         IN  ScanRows(Tail(rows), IF number # None THEN number ELSE ogrenci)

DivMatches(div) == Contains(KwOgretimSekli, Lower(NodeText(div)))

DivValue(div) == Some(Strip(AfterLastColon(NodeText(div))))

\* for div in specific_divs, as the landing page runs it (no break)
RECURSIVE ScanDivs(_, _)
ScanDivs(divs, ogretim_sekli) ==
    IF divs = <<>> THEN ogretim_sekli
    ELSE ScanDivs(Tail(divs),
                  IF DivMatches(Head(divs)) THEN DivValue(Head(divs))
                  ELSE ogretim_sekli)

\* "Hizmet Kapali" in soup.text
IsDownNever(doc) == FALSE

IsDown(doc) == Contains(DownPhrase, SoupText(doc))

\* A fetch ends in a RequestException or in a parsed body.
RequestError == [ok |-> FALSE, doc |-> <<>>]

Body(doc) == [ok |-> TRUE, doc |-> doc]

scrape_page_for_data(url, response) ==
    IF ~response.ok THEN Result(url, None, None)
    ELSE IF IsDown(response.doc) THEN Result(url, None, None)
    ELSE Result(url,
                ScanRows(FindAll(response.doc, "tr"),
                         ScanSpecificTags(FindAll(response.doc, "sayi"), None)),
                ScanDivs(FindAll(response.doc, "div"), None))

(***************************************************************************)
(* Transport: the session of create_session.  One session.get sends the    *)
(* request, and sends it again while the answer is retryable and the       *)
(* Retry object still has retries left.                                    *)
(***************************************************************************)
VARIABLES fState, fTotal, fAttempts, fHistory, fResult

fetchVars == <<fState, fTotal, fAttempts, fHistory, fResult>>

VARIABLES exDoc, exResult, exTable, exData, exSeen

extractVars == <<exDoc, exResult, exTable, exData, exSeen>>

\* Retry(total=3): the number of retries allowed after the first request
RetryTotalOneMore == 3 + 1

RetryTotal == 3

StatusForcelist == {500, 502, 503, 504}

\* What the server does with one request: it answers with a status and a
\* body, or the connection fails (refused, reset, timed out).
Status(code, doc) == [kind |-> "status", code |-> code, doc |-> doc]

ConnFail == [kind |-> "conn", code |-> 0, doc |-> <<>>]

\* Retry.is_retry for a GET, and the connection-level errors urllib3 retries
IsRetry(answer) == answer.kind = "conn" \/ answer.code \in StatusForcelist

\* Retry.is_exhausted, after the increment that follows a retryable answer
IsExhausted(total) == total < 0

\* response.raise_for_status(): an HTTPError for a 4xx or 5xx status
RaisesNever(answer) == FALSE

RaiseForStatus(answer) == answer.code >= 400 /\ answer.code < 600

\* What the caller of session.get and raise_for_status is left with.
ResponseOf(state, answer) ==
    IF state = "raised" \/ RaiseForStatus(answer) THEN RequestError
    ELSE Body(answer.doc)

SampleUrl == <<"a", ".meb.k12.tr">>

DocEmpty == <<>>

DocSayi450 == << Node("sayi", <<<<"4", "5", "0">>>>) >>

FetchDocs == {DocEmpty, DocSayi450}

Answers ==
    {Status(c, d) : c \in {200, 404}, d \in FetchDocs}
    \cup {Status(c, DocEmpty) : c \in StatusForcelist}
    \cup {ConnFail}

FetchInit ==
    /\ fState = "idle"
    /\ fTotal = RetryTotal
    /\ fAttempts = 0
    /\ fHistory = <<>>
    /\ fResult = None

\* session.get(...) is called
FetchStart ==
    /\ fState = "idle"
    /\ fState' = "sending"
    /\ UNCHANGED <<fTotal, fAttempts, fHistory, fResult>>

\* One request goes out and the server answers it.
FetchAttempt(answer) ==
    /\ fState = "sending"
    /\ fAttempts' = fAttempts + 1
    /\ fHistory' = Append(fHistory, answer)
    /\ IF IsRetry(answer)
       THEN /\ fTotal' = fTotal - 1
            /\ fState' = IF IsExhausted(fTotal - 1) THEN "raised" ELSE "sending"
       ELSE /\ fTotal' = fTotal
            /\ fState' = "returned"
    /\ UNCHANGED fResult

\* scrape_page_for_data goes on with what session.get left: it parses the
\* body, or catches the RequestException, and returns its record.
FetchHandle ==
    /\ fState \in {"returned", "raised"}
    /\ fResult = None
    /\ fResult' = Some(scrape_page_for_data(
                          SampleUrl, ResponseOf(fState, fHistory[Len(fHistory)])))
    /\ UNCHANGED <<fState, fTotal, fAttempts, fHistory>>

(***************************************************************************)
(* Extraction: scrape_page_for_data applied to a fetched page.             *)
(***************************************************************************)
MaxNodes == 3

TxtOgrenciSayisi ==
    <<"Ouml","gbreve","r","e","n","c","i"," ","S","a","y","inodot","s","inodot">>

TxtNormal ==
    <<"Ouml","gbreve","r","e","t","i","m"," ","Scedil","e","k","l","i",":"," ",
      "N","o","r","m","a","l">>

TxtIkili ==
    <<"Ouml","gbreve","r","e","t","i","m"," ","Scedil","e","k","l","i",":"," ",
      "Idot","k","i","l","i">>

TxtAdres == <<"A","d","r","e","s",":"," ","M","e","r","k","e","z">>

NodeCatalogue ==
    { Node("sayi", << <<"3","1","2">> >>),
      Node("sayi", << <<" ","4","5"," ">> >>),
      Node("sayi", << <<"a","b","c">> >>),
      Node("tr", << TxtOgrenciSayisi, <<"-">>, <<"3","1","2">> >>),
      Node("tr", << TxtOgrenciSayisi, <<"-">>, <<"9","0">> >>),
      Node("tr", << TxtOgrenciSayisi, <<"-">>, <<"a","b","c">> >>),
      Node("tr", << TxtOgrenciSayisi, <<"7","7">> >>),
      Node("tr", << TxtAdres, <<"-">>, <<"1","2">> >>),
      Node("div", << TxtNormal >>),
      Node("div", << TxtIkili >>),
      Node("div", << TxtAdres >>),
      Node("p", << DownPhrase >>) }

RECURSIVE SeqsUpTo(_, _)
SeqsUpTo(S, n) ==
    IF n = 0 THEN {<<>>}
    ELSE LET shorter == SeqsUpTo(S, n - 1)
         IN  shorter \cup {Append(s, x) : s \in shorter, x \in S}

Docs == SeqsUpTo(NodeCatalogue, MaxNodes)

\* The table and the list of Step 2 before the result of the page is taken.
ExtractInit ==
    /\ exDoc \in Docs
    /\ exResult = None
    /\ exTable = <<Result(SampleUrl, None, None)>>
    /\ exData = <<>>
    /\ exSeen = FALSE

\* The page is fetched and scrape_page_for_data returns.
Extract ==
    /\ exResult = None
    /\ exResult' = Some(scrape_page_for_data(SampleUrl, Body(exDoc)))
    /\ UNCHANGED <<exDoc, exTable, exData, exSeen>>

(***************************************************************************)
(* Link gathering and link scraping (the functions the workers of Step 3   *)
(* and Step 4 run).                                                        *)
(***************************************************************************)
Http == <<"h","t","t","p",":","/","/">>

Https == <<"h","t","t","p","s",":","/","/">>

StartsWith(s, prefix) ==
    Len(s) >= Len(prefix) /\ SubSeq(s, 1, Len(prefix)) = prefix

\* urljoin(base, href) for a base without a path: an absolute href stands,
\* a scheme-relative one takes the base's scheme, a rooted path, a query or
\* a fragment follows the host, anything else is a path below the root.
urljoin(base, href) ==
    IF href = <<>> THEN base
    ELSE IF StartsWith(href, Http) \/ StartsWith(href, Https) THEN href
    ELSE IF StartsWith(href, <<"/", "/">>) THEN <<"h","t","t","p",":">> \o href
    ELSE IF Head(href) \in {"/", "?", "#"} THEN base \o href
    ELSE base \o <<"/">> \o href

Keywords ==
    { <<"o","k","u","l","u","m","u","z","_","h","a","k","k","i","n","d","a">>,
      <<"h","a","k","k","i","m","i","z","d","a">>,
      <<"h","a","k","k","i","n","d","a">>,
      <<"i","s","t","a","t","i","s","t","i","k","l","e","r">> }

\* any(keyword in full_url.lower() for keyword in keywords)
IsRelevantCaseSensitive(full_url) ==
    \E keyword \in Keywords : Contains(keyword, full_url)

IsRelevant(full_url) ==
    \E keyword \in Keywords : Contains(keyword, Lower(full_url))

\* soup.find_all('a', href=True)
Links(doc) ==
    {n \in {doc[i] : i \in 1..Len(doc)} : n.kind = "a" /\ n.href # None}

RelevantLinks(base_url, doc) ==
    {u \in {urljoin(Http \o base_url, n.href[1]) : n \in Links(doc)} :
        IsRelevant(u)}

\* The set relevant_links when the function returns: the seed is the one
\* page it fetches, and a failed fetch adds nothing.
gather_relevant_links(base_url, response) ==
    IF ~response.ok THEN {} ELSE RelevantLinks(base_url, response.doc)

\* list(relevant_links): the elements in some order
ListsOf(S) ==
    {l \in [1..Cardinality(S) -> S] :
        \A i, j \in 1..Cardinality(S) : l[i] = l[j] => i = j}

\* for div in specific_divs ... break: the value of the first matching div
RECURSIVE ScanDivsBreak(_)
ScanDivsBreak(divs) ==
    IF divs = <<>> THEN None
    ELSE IF DivMatches(Head(divs)) THEN DivValue(Head(divs))
    ELSE ScanDivsBreak(Tail(divs))

\* for link in links: responses[i] is how the fetch of links[i] ends
RECURSIVE ScrapeLinksFrom(_, _, _, _)
ScrapeLinksFrom(links, responses, i, ogretim_sekli) ==
    IF i > Len(links) \/ ogretim_sekli # None THEN ogretim_sekli
    ELSE ScrapeLinksFrom(links, responses, i + 1,
                         IF responses[i].ok
                         THEN ScanDivsBreak(FindAll(responses[i].doc, "div"))
                         ELSE None)

scrape_from_links(base_url, links, responses) ==
    Result(base_url, None, ScrapeLinksFrom(links, responses, 1, None))

(***************************************************************************)
(* The script: the table df, the three executor steps and the artifacts.   *)
(***************************************************************************)
VARIABLES df, pc, tasks, landing_page_data, all_links, scraped_data,
          files, writes, phase1_df

pipeVars == <<df, pc, tasks, landing_page_data, all_links, scraped_data,
              files, writes, phase1_df>>

NRows == 2

MaxWorkers == 10

BackupEvery == 50

Suffix == <<".","m","e","b",".","k","1","2",".","t","r">>

\* url.endswith('.meb.k12.tr')
ContainsSuffix(url) == Contains(Suffix, url)

EndsWithSuffix(url) ==
    Len(url) >= Len(Suffix)
    /\ SubSeq(url, Len(url) - Len(Suffix) + 1, Len(url)) = Suffix

AddrA == <<"a">> \o Suffix

AddrB == <<"b">> \o Suffix

AddrOther == <<"c",".","c","o","m">>

\* an address of the domain written with a path after it
AddrPath == AddrA \o <<"/">>

\* what a WEB_ADRES cell may hold; None is a missing value (NaN)
Addresses == {AddrA, AddrB, AddrOther, AddrPath, None}

\* df['WEB_ADRES'].dropna().tolist(), then the suffix filter
IsEligible(row) == row.WEB_ADRES # None /\ EndsWithSuffix(row.WEB_ADRES)

RECURSIVE Column(_)
Column(rows) ==
    IF rows = <<>> THEN <<>> ELSE <<Head(rows).WEB_ADRES>> \o Column(Tail(rows))

Urls(table) == Column(SelectSeq(table, IsEligible))

\* executor.submit for every argument.  The pool starts a thread for each
\* of the first max_workers submissions, and that thread takes the task;
\* the later ones wait in the queue.
Submit(args) ==
    [i \in 1..Len(args) |->
        [arg |-> args[i],
         state |-> IF i <= MaxWorkers THEN "running" ELSE "queued",
         result |-> None]]

UrlArg(url) == [url |-> url, links |-> <<>>]

RECURSIVE UrlArgs(_)
UrlArgs(urls) ==
    IF urls = <<>> THEN <<>> ELSE <<UrlArg(Head(urls))>> \o UrlArgs(Tail(urls))

\* data["..."] is not None or data["..."] is not None
HasValueAlways(data) == TRUE

HasValue(data) == data.ogrenci # None \/ data.ogretim_sekli # None

\* df.loc[df['WEB_ADRES'] == url, [both columns]] = both values of data
ApplyResult(table, data) ==
    [r \in 1..Len(table) |->
        IF table[r].WEB_ADRES = data.WEB_ADRES
        THEN [table[r] EXCEPT !.ogrenci = data.ogrenci,
                              !.ogretim_sekli = data.ogretim_sekli]
        ELSE table[r]]

\* df.to_csv('KurumListe_updated.csv'): the artifact holds the whole table
SaveUpdatedSkipped(old, table) == old

SaveUpdated(old, table) == Some(table)

\* len(...) % 50 == 0
BackupDue(n) == n % BackupEvery = 0

\* the filter of Step 3 over landing_page_data
NeedsAnyLandingData(data) == TRUE

NeedsFullScrape(data) == data.ogrenci = None \/ data.ogretim_sekli = None

urls_to_fully_scrape(data_list) == Column(SelectSeq(data_list, NeedsFullScrape))

\* as_completed has yielded every future of the step
SomeConsumed(ts) == \E i \in 1..Len(ts) : ts[i].state = "consumed"

AllConsumed(ts) == \A i \in 1..Len(ts) : ts[i].state = "consumed"

\* all_links[url] = links: a dict keeps the place of a key it already has
DictSet(dict, url, links) ==
    IF \E k \in 1..Len(dict) : dict[k].url = url
    THEN [k \in 1..Len(dict) |->
            IF dict[k].url = url THEN [url |-> url, links |-> links] ELSE dict[k]]
    ELSE Append(dict, [url |-> url, links |-> links])

NoFiles ==
    [updated |-> None, landing_backup |-> None, temp |-> None,
     scraped_backup |-> None, final |-> None]

NoWrites ==
    [updated |-> 0, landing_backup |-> 0, temp |-> 0, scraped_backup |-> 0,
     final |-> 0]

\* What the pages of a site may be when a worker fetches them.
DocDown == << Node("p", <<DownPhrase>>), Node("sayi", <<<<"4", "5", "0">>>>) >>

DocNormal == << Node("div", <<TxtNormal>>) >>

DocBoth == << Node("sayi", <<<<"4", "5", "0">>>>), Node("div", <<TxtNormal>>) >>

DocIkili == << Node("div", <<TxtIkili>>) >>

AnchorHakkimizda ==
    Anchor(<<"H","a","k","k","i","m","i","z","d","a">>,
           <<"/","h","a","k","k","i","m","i","z","d","a">>)

AnchorContact ==
    Anchor(<<"C","o","n","t","a","c","t">>, <<"/","c","o","n","t","a","c","t">>)

AnchorIstatistikler ==
    Anchor(<<"2","0","2","0">>,
           <<"/","i","s","t","a","t","i","s","t","i","k","l","e","r","/",
             "2","0","2","0">>)

DocAnchors == << AnchorHakkimizda, AnchorContact, AnchorHakkimizda >>

DocThreeLinks ==
    << AnchorHakkimizda, AnchorContact, AnchorIstatistikler, AnchorHakkimizda >>

RootResponses ==
    {RequestError} \cup {Body(d) : d \in {DocEmpty, DocDown, DocSayi450, DocNormal, DocBoth}}

SeedResponses ==
    {RequestError} \cup {Body(d) : d \in {DocEmpty, DocAnchors}}

LinkResponses == {RequestError, Body(DocEmpty), Body(DocIkili)}

PipeInit ==
    /\ df \in {[r \in 1..NRows |-> Result(a[r], None, None)] :
                  a \in [1..NRows -> Addresses]}
    /\ pc = "step2"
    /\ tasks = [s \in {2, 3, 4} |-> IF s = 2 THEN Submit(UrlArgs(Urls(df))) ELSE <<>>]
    /\ landing_page_data = <<>>
    /\ all_links = <<>>
    /\ scraped_data = <<>>
    /\ files = NoFiles
    /\ writes = NoWrites
    /\ phase1_df = df

Queued(ts) == {i \in 1..Len(ts) : ts[i].state = "queued"}

\* The task returns: its future holds the value, and the worker thread
\* takes the next task of the queue, the oldest one.
Returned(ts, i, value) ==
    [k \in 1..Len(ts) |->
        IF k = i THEN [ts[k] EXCEPT !.state = "finished", !.result = Some(value)]
        ELSE IF k \in Queued(ts) /\ \A q \in Queued(ts) : k <= q
        THEN [ts[k] EXCEPT !.state = "running"]
        ELSE ts[k]]

\* The same, by a task that would write the table itself.
WorkerReturnWritingTable(s, i, value) ==
    /\ tasks' = [tasks EXCEPT ![s] = Returned(tasks[s], i, value)]
    /\ df' = IF s = 2 THEN ApplyResult(df, value) ELSE df
    /\ UNCHANGED <<pc, landing_page_data, all_links, scraped_data,
                   files, writes, phase1_df>>

WorkerReturn(s, i, value) ==
    /\ tasks' = [tasks EXCEPT ![s] = Returned(tasks[s], i, value)]
    /\ UNCHANGED <<df, pc, landing_page_data, all_links, scraped_data,
                   files, writes, phase1_df>>

\* scrape_page_for_data(url, session) in a worker
WorkerScrapePage(i) ==
    /\ tasks[2][i].state = "running"
    /\ \E response \in RootResponses :
          WorkerReturn(2, i, scrape_page_for_data(tasks[2][i].arg.url, response))

\* gather_relevant_links(url, session) in a worker
WorkerGatherLinks(i) ==
    /\ tasks[3][i].state = "running"
    /\ \E response \in SeedResponses :
          \E links \in ListsOf(gather_relevant_links(tasks[3][i].arg.url, response)) :
              WorkerReturn(3, i, [url |-> tasks[3][i].arg.url, links |-> links])

\* scrape_from_links(url, links, session) in a worker
WorkerScrapeLinks(i) ==
    /\ tasks[4][i].state = "running"
    /\ \E responses \in [1..Len(tasks[4][i].arg.links) -> LinkResponses] :
          WorkerReturn(4, i, scrape_from_links(tasks[4][i].arg.url,
                                               tasks[4][i].arg.links, responses))

\* if data and (... is not None or ... is not None): the list and the
\* table after the turn of the loop that takes data
ListAfter(list, data) == IF HasValue(data) THEN Append(list, data) ELSE list

TableAfter(table, data) == IF HasValue(data) THEN ApplyResult(table, data) ELSE table

\* The loop of Step 2 takes the result of the page of the extraction.
ExtractConsume ==
    /\ exResult # None
    /\ ~exSeen
    /\ exSeen' = TRUE
    /\ exData' = ListAfter(exData, exResult[1])
    /\ exTable' = TableAfter(exTable, exResult[1])
    /\ UNCHANGED <<exDoc, exResult>>

\* Step 2, one turn of the loop over as_completed(futures)
ConsumeLanding(i) ==
    /\ pc = "step2"
    /\ tasks[2][i].state = "finished"
    /\ LET data == tasks[2][i].result[1]
           kept == HasValue(data)
           list == ListAfter(landing_page_data, data)
           table == TableAfter(df, data)
           backup == BackupDue(Len(list))
       IN  /\ tasks' = [tasks EXCEPT ![2][i].state = "consumed"]
           /\ landing_page_data' = list
           /\ df' = table
           /\ files' = [files EXCEPT
                 !.updated = IF kept THEN SaveUpdated(@, table) ELSE @,
                 !.landing_backup = IF backup THEN Some(list) ELSE @]
           /\ writes' = [writes EXCEPT
                 !.updated = IF kept THEN @ + 1 ELSE @,
                 !.landing_backup = IF backup THEN @ + 1 ELSE @]
    /\ UNCHANGED <<pc, all_links, scraped_data, phase1_df>>

\* Step 2 is over (the with block is left); Step 3 submits its tasks.
StartStep3 ==
    /\ pc = "step2"
    /\ AllConsumed(tasks[2])
    /\ pc' = "step3"
    /\ phase1_df' = df
    /\ tasks' = [tasks EXCEPT
                   ![3] = Submit(UrlArgs(urls_to_fully_scrape(landing_page_data)))]
    /\ UNCHANGED <<df, landing_page_data, all_links, scraped_data, files, writes>>

\* Step 3, one turn of the loop over as_completed(futures)
ConsumeLinks(i) ==
    /\ pc = "step3"
    /\ tasks[3][i].state = "finished"
    /\ LET got == tasks[3][i].result[1]
       IN  all_links' = IF got.links # <<>>
                        THEN DictSet(all_links, got.url, got.links)
                        ELSE all_links
    /\ tasks' = [tasks EXCEPT ![3][i].state = "consumed"]
    /\ UNCHANGED <<df, pc, landing_page_data, scraped_data, files, writes,
                   phase1_df>>

\* Step 3 is over; Step 4 submits one task for every item of all_links.
StartStep4 ==
    /\ pc = "step3"
    /\ AllConsumed(tasks[3])
    /\ pc' = "step4"
    /\ tasks' = [tasks EXCEPT ![4] = Submit(all_links)]
    /\ UNCHANGED <<df, landing_page_data, all_links, scraped_data, files,
                   writes, phase1_df>>

\* Step 4, one turn of the loop over as_completed(futures).  With
\* scraped_data still empty, pd.DataFrame(scraped_data) has no WEB_ADRES
\* column and df.merge raises a KeyError: the script ends there.
ConsumeScraped(i) ==
    /\ pc = "step4"
    /\ tasks[4][i].state = "finished"
    /\ LET data == tasks[4][i].result[1]
           kept == HasValue(data)
           list == ListAfter(scraped_data, data)
           table == TableAfter(df, data)
           backup == BackupDue(Len(list)) /\ list # <<>>
       IN  /\ tasks' = [tasks EXCEPT ![4][i].state = "consumed"]
           /\ scraped_data' = list
           /\ df' = table
           /\ pc' = IF BackupDue(Len(list)) /\ list = <<>> THEN "crashed" ELSE pc
           /\ files' = [files EXCEPT
                 !.updated = IF kept THEN SaveUpdated(@, table) ELSE @,
                 !.temp = IF backup THEN Some(<<table, list>>) ELSE @,
                 !.scraped_backup = IF backup THEN Some(list) ELSE @]
           /\ writes' = [writes EXCEPT
                 !.updated = IF kept THEN @ + 1 ELSE @,
                 !.temp = IF backup THEN @ + 1 ELSE @,
                 !.scraped_backup = IF backup THEN @ + 1 ELSE @]
    /\ UNCHANGED <<landing_page_data, all_links, phase1_df>>

\* Step 4 is over: df.to_csv('KurumListe_final.csv')
SaveFinal ==
    /\ pc = "step4"
    /\ AllConsumed(tasks[4])
    /\ pc' = "done"
    /\ files' = [files EXCEPT !.final = Some(df)]
    /\ writes' = [writes EXCEPT !.final = @ + 1]
    /\ UNCHANGED <<df, tasks, landing_page_data, all_links, scraped_data,
                   phase1_df>>

PipeIdle ==
    /\ df = <<>>
    /\ pc = "off"
    /\ tasks = [s \in {2, 3, 4} |-> <<>>]
    /\ landing_page_data = <<>>
    /\ all_links = <<>>
    /\ scraped_data = <<>>
    /\ files = NoFiles
    /\ writes = NoWrites
    /\ phase1_df = <<>>

(***************************************************************************)
(* gather_relevant_links, turn by turn of its while loop.                  *)
(***************************************************************************)
VARIABLES urls_to_visit, visited_urls, relevant_links, dFetches, dState, dResult

discoverVars ==
    <<urls_to_visit, visited_urls, relevant_links, dFetches, dState, dResult>>

MaxAnchors == 3

AnchorUpper ==
    Anchor(<<"H","a","k","k","i","n","d","a">>,
           <<"H","a","k","k","i","n","d","a",".","h","t","m","l">>)

AnchorExternal ==
    Anchor(<<"x">>,
           <<"h","t","t","p",":","/","/","x",".","o","r","g","/",
             "h","a","k","k","i","n","d","a">>)

\* a link of the page to the seed page itself
AnchorSelf == Anchor(<<"A","n","a">>, Http \o AddrA)

\* an a element without an href attribute
AnchorNoHref == Node("a", << <<"T","o","p">> >>)

AnchorCatalogue ==
    {AnchorHakkimizda, AnchorContact, AnchorIstatistikler, AnchorUpper,
     AnchorExternal, AnchorSelf, AnchorNoHref}

\* how the fetch of a page of the site may end
DiscoverResponses ==
    {RequestError} \cup {Body(d) : d \in SeqsUpTo(AnchorCatalogue, MaxAnchors)}

\* urls_to_visit.pop(0): what stays in the list
AfterPopKept(queue) == queue

AfterPop(queue) == Tail(queue)

\* The list urls_to_visit after the for loop over the links of a page: the
\* loop adds to relevant_links and appends nothing to the list.
QueueWithFound(queue, found) == queue \o (CHOOSE l \in ListsOf(found) : TRUE)

QueueAfterPage(queue, found) == queue

DiscoverInit ==
    /\ urls_to_visit = <<Http \o AddrA>>
    /\ visited_urls = {}
    /\ relevant_links = {}
    /\ dFetches = <<>>
    /\ dState = "loop"
    /\ dResult = <<>>

\* One turn of while urls_to_visit; response is how the fetch of the page
\* ends if the turn gets to it (a turn that skips the URL fetches nothing,
\* and one response stands for all).
DiscoverTurn(response) ==
    /\ dState = "loop"
    /\ urls_to_visit # <<>>
    /\ Head(urls_to_visit) \in visited_urls => response = RequestError
    /\ LET current_url == Head(urls_to_visit)
           rest == AfterPop(urls_to_visit)
           found == IF response.ok THEN RelevantLinks(AddrA, response.doc) ELSE {}
       IN  IF current_url \in visited_urls
           THEN /\ urls_to_visit' = rest
                /\ UNCHANGED <<visited_urls, relevant_links, dFetches>>
           ELSE /\ visited_urls' = visited_urls \cup {current_url}
                /\ dFetches' = Append(dFetches,
                                      [url |-> current_url, response |-> response])
                /\ relevant_links' = relevant_links \cup found
                /\ urls_to_visit' = QueueAfterPage(rest, found)
    /\ UNCHANGED <<dState, dResult>>

\* return base_url, list(relevant_links)
DiscoverReturn ==
    /\ dState = "loop"
    /\ urls_to_visit = <<>>
    /\ dState' = "returned"
    /\ dResult' \in ListsOf(relevant_links)
    /\ UNCHANGED <<urls_to_visit, visited_urls, relevant_links, dFetches>>

DiscoverIdle ==
    /\ urls_to_visit = <<>>
    /\ visited_urls = {}
    /\ relevant_links = {}
    /\ dFetches = <<>>
    /\ dState = "off"
    /\ dResult = <<>>

(***************************************************************************)
(* scrape_from_links, turn by turn of its for loop.                        *)
(***************************************************************************)
VARIABLES sLinks, sNext, sOgrenci, sOgretimSekli, sFetches, sState, sResult

scrapeVars == <<sLinks, sNext, sOgrenci, sOgretimSekli, sFetches, sState, sResult>>

MaxLinks == 2

\* the links the discovery may have returned for a.meb.k12.tr
ScrapeLinkUrls ==
    {urljoin(Http \o AddrA, a.href[1]) :
        a \in {AnchorHakkimizda, AnchorIstatistikler, AnchorUpper}}

\* list(relevant_links): no link twice, in any order
ScrapeLinkLists ==
    UNION {ListsOf(S) : S \in {T \in SUBSET ScrapeLinkUrls : Cardinality(T) <= MaxLinks}}

DocTwoModes == << Node("div", <<TxtIkili>>), Node("div", <<TxtNormal>>) >>

\* how the fetch of a link may end
ScrapeResponses ==
    {RequestError}
    \cup {Body(d) : d \in {DocEmpty, DocSayi450, DocNormal, DocIkili, DocBoth,
                           DocTwoModes}}

\* if ogretim_sekli is not None: break
StopsNever(ogretim_sekli) == FALSE

StopsAfterValue(ogretim_sekli) == ogretim_sekli # None

\* The enrollment variable after the body of the loop has run on a page:
\* the body has no assignment to it.
LinkPageEnrollmentScanned(ogrenci, response) ==
    IF response.ok THEN ScanSpecificTags(FindAll(response.doc, "sayi"), ogrenci)
    ELSE ogrenci

LinkPageEnrollment(ogrenci, response) == ogrenci

ScrapeInit ==
    /\ sLinks \in ScrapeLinkLists
    /\ sNext = 1
    /\ sOgrenci = None
    /\ sOgretimSekli = None
    /\ sFetches = <<>>
    /\ sState = "loop"
    /\ sResult = None

\* One turn of for link in links that gets past the break: the link is
\* fetched, and response is how the fetch ends.
ScrapeTurn(response) ==
    /\ sState = "loop"
    /\ sNext <= Len(sLinks)
    /\ ~StopsAfterValue(sOgretimSekli)
    /\ LET found == IF response.ok
                    THEN ScanDivsBreak(FindAll(response.doc, "div")) ELSE None
       IN  /\ sFetches' = Append(sFetches,
                                 [url |-> sLinks[sNext], response |-> response])
           /\ sOgretimSekli' = IF found # None THEN found ELSE sOgretimSekli
           /\ sOgrenci' = LinkPageEnrollment(sOgrenci, response)
           /\ sNext' = sNext + 1
    /\ UNCHANGED <<sLinks, sState, sResult>>

\* The loop ends, by the break or at the end of the list, and the
\* function returns its record.
ScrapeReturn ==
    /\ sState = "loop"
    /\ sNext > Len(sLinks) \/ StopsAfterValue(sOgretimSekli)
    /\ sState' = "returned"
    /\ sResult' = Some(Result(AddrA, sOgrenci, sOgretimSekli))
    /\ UNCHANGED <<sLinks, sNext, sOgrenci, sOgretimSekli, sFetches>>

ScrapeIdle ==
    /\ sLinks = <<>>
    /\ sNext = 1
    /\ sOgrenci = None
    /\ sOgretimSekli = None
    /\ sFetches = <<>>
    /\ sState = "off"
    /\ sResult = None

FetchIdle == fState = "off" /\ fTotal = 0 /\ fAttempts = 0 /\ fHistory = <<>> /\ fResult = None

ExtractIdle ==
    /\ exDoc = <<>>
    /\ exResult = Some(Result(SampleUrl, None, None))
    /\ exTable = <<>>
    /\ exData = <<>>
    /\ exSeen = TRUE

FetchNext ==
    \/ FetchStart /\ UNCHANGED <<extractVars, pipeVars, discoverVars, scrapeVars>>
    \/ (\E answer \in Answers : FetchAttempt(answer)) /\ UNCHANGED <<extractVars, pipeVars, discoverVars, scrapeVars>>
    \/ FetchHandle /\ UNCHANGED <<extractVars, pipeVars, discoverVars, scrapeVars>>

ExtractNext ==
    \/ Extract /\ UNCHANGED <<fetchVars, pipeVars, discoverVars, scrapeVars>>
    \/ ExtractConsume /\ UNCHANGED <<fetchVars, pipeVars, discoverVars, scrapeVars>>

DiscoverNext ==
    \/ (\E response \in DiscoverResponses : DiscoverTurn(response))
          /\ UNCHANGED <<fetchVars, extractVars, pipeVars, scrapeVars>>
    \/ DiscoverReturn /\ UNCHANGED <<fetchVars, extractVars, pipeVars, scrapeVars>>

ScrapeNext ==
    \/ (\E response \in ScrapeResponses : ScrapeTurn(response))
          /\ UNCHANGED <<fetchVars, extractVars, pipeVars, discoverVars>>
    \/ ScrapeReturn /\ UNCHANGED <<fetchVars, extractVars, pipeVars, discoverVars>>

otherVars == <<fetchVars, extractVars, discoverVars, scrapeVars>>

Next ==
    \/ (\E i \in 1..Len(tasks[2]) : WorkerScrapePage(i)) /\ UNCHANGED otherVars
    \/ (\E i \in 1..Len(tasks[3]) : WorkerGatherLinks(i)) /\ UNCHANGED otherVars
    \/ (\E i \in 1..Len(tasks[4]) : WorkerScrapeLinks(i)) /\ UNCHANGED otherVars
    \/ (\E i \in 1..Len(tasks[2]) : ConsumeLanding(i)) /\ UNCHANGED otherVars
    \/ StartStep3 /\ UNCHANGED otherVars
    \/ (\E i \in 1..Len(tasks[3]) : ConsumeLinks(i)) /\ UNCHANGED otherVars
    \/ StartStep4 /\ UNCHANGED otherVars
    \/ (\E i \in 1..Len(tasks[4]) : ConsumeScraped(i)) /\ UNCHANGED otherVars
    \/ SaveFinal /\ UNCHANGED otherVars

vars == <<fetchVars, extractVars, pipeVars, discoverVars, scrapeVars>>

Init == PipeInit /\ FetchIdle /\ ExtractIdle /\ DiscoverIdle /\ ScrapeIdle

InitFetch == FetchInit /\ ExtractIdle /\ PipeIdle /\ DiscoverIdle /\ ScrapeIdle

InitExtract == ExtractInit /\ FetchIdle /\ PipeIdle /\ DiscoverIdle /\ ScrapeIdle

InitDiscover == DiscoverInit /\ FetchIdle /\ ExtractIdle /\ PipeIdle /\ ScrapeIdle

InitScrape == ScrapeInit /\ FetchIdle /\ ExtractIdle /\ PipeIdle /\ DiscoverIdle

Spec == Init /\ [][Next]_vars

SpecFetch == InitFetch /\ [][FetchNext]_vars

SpecExtract == InitExtract /\ [][ExtractNext]_vars

SpecDiscover == InitDiscover /\ [][DiscoverNext]_vars

SpecScrape == InitScrape /\ [][ScrapeNext]_vars

\* The worker thread that runs the function keeps running it.
SpecDiscoverLive == SpecDiscover /\ WF_vars(DiscoverNext)

(***************************************************************************)
(* Properties of the extraction and of the transport.                      *)
(***************************************************************************)
RECURSIVE FirstValidParse(_)
FirstValidParse(texts) ==
    IF texts = <<>> THEN None
    ELSE IF ParseInt(Head(texts)) # None THEN ParseInt(Head(texts))
    ELSE FirstValidParse(Tail(texts))

RECURSIVE KeywordRowTexts(_)
KeywordRowTexts(rows) ==
    IF rows = <<>> THEN <<>>
    ELSE (IF RowMatches(Head(rows).cells) THEN <<Head(rows).cells[3]>> ELSE <<>>)
         \o KeywordRowTexts(Tail(rows))

RECURSIVE TagTexts(_)
TagTexts(tags) ==
    IF tags = <<>> THEN <<>> ELSE <<NodeText(Head(tags))>> \o TagTexts(Tail(tags))

\* the first okulumuz-sayi element that parses, else the first keyword row
\* that parses
FirstValidEnrollment(doc) ==
    FirstValidParse(TagTexts(FindAll(doc, "sayi"))
                    \o KeywordRowTexts(FindAll(doc, "tr")))

RECURSIVE FirstMatchingDiv(_)
FirstMatchingDiv(divs) ==
    IF divs = <<>> THEN None
    ELSE IF DivMatches(Head(divs)) THEN DivValue(Head(divs))
    ELSE FirstMatchingDiv(Tail(divs))

\* C5 (as claimed): each field returned by the landing-page extraction is
\* the value of the first node, in evaluation order, that yields a valid
\* value; no later node or rule overrides it.
C5_FirstValidMatchWins ==
    (exResult # None /\ ~IsDown(exDoc)) =>
        /\ exResult[1].ogrenci = FirstValidEnrollment(exDoc)
        /\ exResult[1].ogretim_sekli = FirstMatchingDiv(FindAll(exDoc, "div"))

\* C6 (as claimed): a fetch sends at most 3 requests in total.
C6_AtMostThreeAttempts == fAttempts <= 3

\* C6 (amended): a fetch sends at most 4 requests in total, the first one
\* and at most 3 retries, whatever the server answers.
C6_AtMostFourAttempts == fAttempts <= 4

\* C6, reached: four retryable answers were received and the fetch failed.
C6_FourthAttemptSent == fAttempts = 4 /\ fState = "raised"

Codes(history) == [i \in 1..Len(history) |-> history[i].code]

\* C7: answers 503, 503, 200 end in a successful fetch after exactly 2
\* retries; a first answer 404 ends the fetch after one request and no
\* retry, and scrape_page_for_data returns the record with both fields None.
C7_RetryPolicyByStatus ==
    /\ Codes(fHistory) = <<503, 503, 200>> =>
          /\ fState = "returned"
          /\ fAttempts - 1 = 2
          /\ ResponseOf(fState, fHistory[3]).ok
    /\ (fHistory # <<>> /\ fHistory[1].code = 404) =>
          /\ fState = "returned"
          /\ fAttempts = 1
          /\ fResult \in {None, Some(Result(SampleUrl, None, None))}

\* C7, reached: a 404 whose body carries an enrollment ended as the record
\* with both fields None.
C7_NotFoundHandled ==
    /\ Codes(fHistory) = <<404>>
    /\ fHistory[1].doc = DocSayi450
    /\ fResult = Some(Result(SampleUrl, None, None))

\* The other case of C7, reached: 503, 503, 200 and the page was scraped.
C7_RetriedTwiceThenOk ==
    /\ Codes(fHistory) = <<503, 503, 200>>
    /\ fHistory[3].doc = DocSayi450
    /\ fResult = Some(Result(SampleUrl, Some(450), None))

(***************************************************************************)
(* Properties of the script.                                               *)
(***************************************************************************)
AfterStep2 == pc \in {"step3", "step4", "crashed", "done"}

\* C1 (as claimed): a cell of the two extracted columns that is not None
\* when Step 2 ends holds the same value after every table update of Step 4.
C1_MonotonicResolution ==
    AfterStep2 =>
        \A r \in 1..Len(df) :
            /\ phase1_df[r].ogrenci # None => df[r].ogrenci = phase1_df[r].ogrenci
            /\ phase1_df[r].ogretim_sekli # None =>
                   df[r].ogretim_sekli = phase1_df[r].ogretim_sekli

\* C2 (as claimed): every url whose landing-page task returned neither
\* field is among the urls handed to link gathering.
C2_UnresolvedGoesToDiscovery ==
    AfterStep2 =>
        \A i \in 1..Len(tasks[2]) :
            ~HasValue(tasks[2][i].result[1]) =>
                \E j \in 1..Len(tasks[3]) :
                    tasks[3][j].arg.url = tasks[2][i].arg.url

NoLaterTask(url) ==
    \A s \in {3, 4} : \A j \in 1..Len(tasks[s]) : tasks[s][j].arg.url # url

\* C3 (as claimed): a url whose landing-page task found at least one field
\* gets no link gathering and no link scraping.
C3_AnyFieldIsTerminal ==
    \A i \in 1..Len(tasks[2]) :
        (tasks[2][i].state = "consumed" /\ HasValue(tasks[2][i].result[1]))
            => NoLaterTask(tasks[2][i].arg.url)

FoundBoth(task) ==
    /\ task.state = "consumed"
    /\ task.result[1].ogrenci # None
    /\ task.result[1].ogretim_sekli # None

\* C3 (amended): a url all of whose landing-page tasks found both fields
\* gets no link gathering and no link scraping.
C3_BothFieldsIsTerminal ==
    \A i \in 1..Len(tasks[2]) :
        (\A k \in 1..Len(tasks[2]) :
            tasks[2][k].arg.url = tasks[2][i].arg.url => FoundBoth(tasks[2][k]))
            => NoLaterTask(tasks[2][i].arg.url)

\* C3, reached: Step 4 runs for some url while another url found both fields.
C3_ResolvedBesideScraped ==
    /\ pc = "step4"
    /\ tasks[4] # <<>>
    /\ \E i \in 1..Len(tasks[2]) : FoundBoth(tasks[2][i])

\* C4 (as claimed): whenever the result list of a step holds N records and
\* N is a multiple of 50, the backup of that step was written N/50 times.
C4_BackupWriteCount ==
    /\ Len(landing_page_data) % 50 = 0 =>
           writes.landing_backup = Len(landing_page_data) \div 50
    /\ Len(scraped_data) % 50 = 0 =>
           writes.scraped_backup = Len(scraped_data) \div 50

InList(data, list) == \E k \in 1..Len(list) : list[k] = data

\* C8: while any task of Step 3 or Step 4 exists, every landing-page task
\* has returned and its result has been consumed by the loop of Step 2
\* (and, when it carries a field, recorded).
C8_PhaseBarrier ==
    (tasks[3] # <<>> \/ tasks[4] # <<>>) =>
        \A i \in 1..Len(tasks[2]) :
            /\ tasks[2][i].state = "consumed"
            /\ HasValue(tasks[2][i].result[1]) =>
                   InList(tasks[2][i].result[1], landing_page_data)

\* C8, reached: two landing-page tasks existed and a gathering task runs.
C8_GatheringAfterAllLanding ==
    /\ Len(tasks[2]) = 2
    /\ \E j \in 1..Len(tasks[3]) : tasks[3][j].state = "running"

WorkerStep ==
    \E s \in {2, 3, 4} : \E i \in 1..Len(tasks[s]) :
        tasks[s][i].state = "running" /\ tasks'[s][i].state = "finished"

\* C9: a step in which a worker task returns changes neither the table nor
\* any artifact nor the lists the main thread keeps; every such change is a
\* step of the main thread, which makes one at a time.
C9_SingleWriter ==
    [][WorkerStep =>
          UNCHANGED <<df, files, writes, landing_page_data, all_links,
                      scraped_data>>]_vars

\* C9, reached: the main thread has written while a worker task is running.
C9_WorkerRunsBesideWriter ==
    /\ writes.updated > 0
    /\ \E s \in {2, 3, 4} : \E i \in 1..Len(tasks[s]) : tasks[s][i].state = "running"

\* C10: once a result carrying a field has been consumed, in Step 2 or in
\* Step 4, KurumListe_updated.csv holds the table as it is in memory, and it
\* has been written once for every such result.
C10_PrimaryArtifactCurrent ==
    /\ (landing_page_data # <<>> \/ scraped_data # <<>>) => files.updated = Some(df)
    /\ writes.updated = Len(landing_page_data) + Len(scraped_data)

\* C10, reached: Step 4 has changed the table and rewritten the artifact.
C10_WrittenInStep4 ==
    /\ scraped_data # <<>>
    /\ landing_page_data # <<>>
    /\ files.updated = Some(df)
    /\ df # phase1_df

(***************************************************************************)
(* Properties of the script, Steps 2 to 4 as a whole.                      *)
(***************************************************************************)
\* the script has ended, by its last statement or by an uncaught exception
Ended == pc \in {"done", "crashed"}

\* C11: no failed fetch aborts the run: the script is never ended by an
\* exception, every task of a step is consumed in that step, and a run that
\* has ended has written KurumListe_final.csv exactly once.
C11_FailureIsolation ==
    /\ pc # "crashed"
    /\ writes.final <= 1
    /\ Ended => /\ writes.final = 1
                /\ \A s \in {2, 3, 4} : AllConsumed(tasks[s])

(***************************************************************************)
(* Properties of the extraction of one page and of the turn of the Step 2  *)
(* loop that takes its result.                                             *)
(***************************************************************************)
MarkerNode == Node("p", <<DownPhrase>>)

ShowsMarker(doc) == \E i \in 1..Len(doc) : doc[i] = MarkerNode

\* a page with a value for each rule: an element or a keyword row that
\* parses, and a matching div
HasOtherContent(doc) ==
    /\ \E i \in 1..Len(doc) :
          \/ doc[i].kind = "sayi" /\ ParseInt(NodeText(doc[i])) # None
          \/ doc[i].kind = "tr" /\ RowMatches(doc[i].cells)
                                /\ ParseInt(doc[i].cells[3]) # None
    /\ \E i \in 1..Len(doc) : doc[i].kind = "div" /\ DivMatches(doc[i])

\* C12: a page that shows the hosting-unavailable phrase gives a record with
\* both fields None whatever else is on the page, and the loop of Step 2
\* leaves the table and the list as they were when it takes that record.
C12_DownPageShortCircuit ==
    ShowsMarker(exDoc) =>
        /\ exResult # None => exResult[1] = Result(SampleUrl, None, None)
        /\ exTable = <<Result(SampleUrl, None, None)>>
        /\ exData = <<>>

C12_DownPageWithContentTaken ==
    ShowsMarker(exDoc) /\ HasOtherContent(exDoc) /\ exSeen /\ exResult # None

\* an okulumuz-sayi element, or a keyword row of three cells, whose text is
\* not an integer
Unparsable(n) ==
    \/ n.kind = "sayi" /\ ParseInt(Strip(NodeText(n))) = None
    \/ n.kind = "tr" /\ RowMatches(n.cells) /\ ParseInt(Strip(n.cells[3])) = None

ParsableTag(n) == n.kind = "sayi" /\ ParseInt(Strip(NodeText(n))) # None

ParsableRow(n) ==
    n.kind = "tr" /\ RowMatches(n.cells) /\ ParseInt(Strip(n.cells[3])) # None

WithoutNode(doc, i) == SubSeq(doc, 1, i - 1) \o SubSeq(doc, i + 1, Len(doc))

Enrollment(doc) == scrape_page_for_data(SampleUrl, Body(doc)).ogrenci

\* C13: an element or keyword row that does not parse raises nothing and
\* changes nothing: the record is returned, with the enrollment the page
\* gives without that node (None when no node parses).  A keyword row of
\* three cells that parses sets the enrollment to its integer: it is the
\* value once that row has been examined, and the returned one when no
\* later keyword row parses.
C13_ParseFailureSkipped ==
    (exResult # None /\ ~ShowsMarker(exDoc)) =>
        /\ \A i \in 1..Len(exDoc) :
              Unparsable(exDoc[i]) =>
                  exResult[1].ogrenci = Enrollment(WithoutNode(exDoc, i))
        /\ (\A i \in 1..Len(exDoc) :
               ~ParsableTag(exDoc[i]) /\ ~ParsableRow(exDoc[i]))
           => exResult[1].ogrenci = None
        /\ \A i \in 1..Len(exDoc) :
              ParsableRow(exDoc[i]) =>
                  /\ Enrollment(SubSeq(exDoc, 1, i)) = ParseInt(exDoc[i].cells[3])
                  /\ (\A j \in (i + 1)..Len(exDoc) : ~ParsableRow(exDoc[j]))
                     => exResult[1].ogrenci = ParseInt(exDoc[i].cells[3])

C13_UnparsableRowAfterValue ==
    /\ exResult # None
    /\ \E i, j \in 1..Len(exDoc) :
          /\ i < j
          /\ ParsableRow(exDoc[i])
          /\ Unparsable(exDoc[j]) /\ exDoc[j].kind = "tr"
          /\ exResult[1].ogrenci = ParseInt(exDoc[i].cells[3])

(***************************************************************************)
(* Properties of gather_relevant_links.                                    *)
(***************************************************************************)
SeedUrl == Http \o AddrA

\* For each link of the catalogue, the absolute URL it stands for on the
\* seed page of a.meb.k12.tr, and whether that URL, in lower case, has one
\* of the four keywords in it.
LinkTargets ==
    { [node |-> AnchorHakkimizda, relevant |-> TRUE,
       url |-> <<"h","t","t","p",":","/","/","a",".","m","e","b",".","k","1",
                 "2",".","t","r","/","h","a","k","k","i","m","i","z","d","a">>],
      [node |-> AnchorContact, relevant |-> FALSE,
       url |-> <<"h","t","t","p",":","/","/","a",".","m","e","b",".","k","1",
                 "2",".","t","r","/","c","o","n","t","a","c","t">>],
      [node |-> AnchorIstatistikler, relevant |-> TRUE,
       url |-> <<"h","t","t","p",":","/","/","a",".","m","e","b",".","k","1",
                 "2",".","t","r","/","i","s","t","a","t","i","s","t","i","k",
                 "l","e","r","/","2","0","2","0">>],
      [node |-> AnchorUpper, relevant |-> TRUE,
       url |-> <<"h","t","t","p",":","/","/","a",".","m","e","b",".","k","1",
                 "2",".","t","r","/","H","a","k","k","i","n","d","a",".","h",
                 "t","m","l">>],
      [node |-> AnchorExternal, relevant |-> TRUE,
       url |-> <<"h","t","t","p",":","/","/","x",".","o","r","g","/",
                 "h","a","k","k","i","n","d","a">>],
      [node |-> AnchorSelf, relevant |-> FALSE,
       url |-> <<"h","t","t","p",":","/","/","a",".","m","e","b",".","k","1",
                 "2",".","t","r">>] }

NodesOf(doc) == {doc[i] : i \in 1..Len(doc)}

ExpectedLinks(doc) ==
    {t.url : t \in {x \in LinkTargets : x.node \in NodesOf(doc) /\ x.relevant}}

SeedFetched == dFetches # <<>> /\ dFetches[1].response.ok

\* C14: when the seed page was fetched, the returned list holds exactly
\* the absolute URLs of the links of the page whose lower-case form has a
\* keyword in it, each of them once.
C14_RelevantLinkFilter ==
    (dState = "returned" /\ SeedFetched) =>
        /\ {dResult[i] : i \in 1..Len(dResult)} = ExpectedLinks(dFetches[1].response.doc)
        /\ \A i, j \in 1..Len(dResult) : dResult[i] = dResult[j] => i = j

C14_MixedPageFiltered ==
    /\ dState = "returned"
    /\ SeedFetched
    /\ dFetches[1].response.doc = <<AnchorUpper, AnchorContact, AnchorUpper>>
    /\ Len(dResult) = 1

\* a turn of the loop that fetches a page
FetchesPage == dFetches' # dFetches

\* C15: whatever the pages of the site link to (themselves and the seed
\* included) and whichever fetches fail, a run of gather_relevant_links
\* returns, it fetches no more than one page before it does, and it
\* fetches no URL that is in visited_urls or that it has fetched before.
C15_DiscoveryTerminates ==
    /\ <>(dState = "returned")
    /\ [](/\ Len(dFetches) <= 1
          /\ \A i, j \in 1..Len(dFetches) :
                dFetches[i].url = dFetches[j].url => i = j)
    /\ [][FetchesPage => dFetches'[Len(dFetches')].url \notin visited_urls]_vars

C15_ReturnedFromCyclicSite ==
    /\ dState = "returned"
    /\ SeedFetched
    /\ AnchorSelf \in NodesOf(dFetches[1].response.doc)
    /\ AnchorHakkimizda \in NodesOf(dFetches[1].response.doc)
    /\ visited_urls = {SeedUrl}

(***************************************************************************)
(* Properties of the script: the rows that are not targets, and the        *)
(* targets Step 4 finds nothing for.                                       *)
(***************************************************************************)
\* the addresses of the table that end with .meb.k12.tr
InDomain == {AddrA, AddrB}

\* C16: a row without an address, or with one that does not end with
\* .meb.k12.tr, is the argument of no task of Step 2, Step 3 or Step 4, is
\* in none of the lists of results, and its two cells stay empty.
C16_FilteredRowsUntouched ==
    /\ \A s \in {2, 3, 4} : \A i \in 1..Len(tasks[s]) :
          tasks[s][i].arg.url \in InDomain
    /\ \A i \in 1..Len(landing_page_data) : landing_page_data[i].WEB_ADRES \in InDomain
    /\ \A i \in 1..Len(all_links) : all_links[i].url \in InDomain
    /\ \A i \in 1..Len(scraped_data) : scraped_data[i].WEB_ADRES \in InDomain
    /\ \A r \in 1..Len(df) :
          df[r].WEB_ADRES \notin InDomain =>
              df[r].ogrenci = None /\ df[r].ogretim_sekli = None

C16_FilteredRowBesideWrittenRow ==
    /\ pc = "done"
    /\ \E r, q \in 1..Len(df) :
          /\ df[r].WEB_ADRES = AddrPath
          /\ df[q].WEB_ADRES = AddrA
          /\ df[q].ogretim_sekli # None
          /\ scraped_data # <<>>

(***************************************************************************)
(* Properties of scrape_from_links.                                        *)
(***************************************************************************)
\* For each page a link may lead to, the instruction mode written on it
\* (the one of its first col-sm-4 div that names a mode), if any.
PageModes ==
    { [doc |-> DocEmpty, mode |-> None],
      [doc |-> DocSayi450, mode |-> None],
      [doc |-> DocNormal, mode |-> Some(<<"N","o","r","m","a","l">>)],
      [doc |-> DocBoth, mode |-> Some(<<"N","o","r","m","a","l">>)],
      [doc |-> DocIkili, mode |-> Some(<<"Idot","k","i","l","i">>)],
      [doc |-> DocTwoModes, mode |-> Some(<<"Idot","k","i","l","i">>)] }

\* the value a fetch yields: none when the fetch failed
Yield(response) ==
    IF response.ok THEN (CHOOSE p \in PageModes : p.doc = response.doc).mode
    ELSE None

\* C17: the links are fetched in the order of the list, one per turn; no
\* link is fetched after a page that yielded a value; the returned mode is
\* the one of the first page that yielded one, and it is None only when
\* every link of the list was fetched and none yielded a value.
C17_FirstMatchStop ==
    /\ Len(sFetches) <= Len(sLinks)
    /\ \A k \in 1..Len(sFetches) : sFetches[k].url = sLinks[k]
    /\ \A k \in 1..(Len(sFetches) - 1) : Yield(sFetches[k].response) = None
    /\ sState = "returned" =>
          LET n == Len(sFetches)
          IN  IF n > 0 /\ Yield(sFetches[n].response) # None
              THEN sResult[1].ogretim_sekli = Yield(sFetches[n].response)
              ELSE sResult[1].ogretim_sekli = None /\ n = Len(sLinks)

C17_SecondLinkNotFetched ==
    /\ sState = "returned"
    /\ Len(sLinks) = 2
    /\ Len(sFetches) = 1
    /\ sFetches[1].response = Body(DocTwoModes)
    /\ sResult[1].ogretim_sekli = Some(<<"Idot","k","i","l","i">>)

\* C19: the record scrape_from_links returns has no enrollment count,
\* whatever the links and whatever the pages they lead to hold, and at no
\* point of the run does its enrollment variable have a value.
C19_EnrollmentNeverResolved ==
    /\ sOgrenci = None
    /\ sState = "returned" =>
          /\ sResult[1].ogrenci = None
          /\ sResult[1].WEB_ADRES = AddrA

C19_EnrollmentPageIgnored ==
    /\ sState = "returned"
    /\ \E k \in 1..Len(sFetches) : sFetches[k].response = Body(DocBoth)
    /\ sResult[1].ogretim_sekli # None
    /\ sResult[1].ogrenci = None

AfterStep3 == pc \in {"step4", "crashed", "done"}

\* Step 4 has nothing for the address: it is no key of all_links (no
\* discovery run gave a link for it), or the loop of Step 4 has taken the
\* record of its links and the record has no value.
Exhausted(url) ==
    /\ AfterStep3
    /\ \A i \in 1..Len(tasks[4]) :
          tasks[4][i].arg.url = url =>
              /\ tasks[4][i].state = "consumed"
              /\ tasks[4][i].result[1].ogrenci = None
              /\ tasks[4][i].result[1].ogretim_sekli = None

\* C18: for a target that is exhausted, Step 4 assigns no cell and rewrites
\* no KurumListe_updated.csv: the rows of the target are as Step 2 left
\* them, scraped_data has no record of it, and the artifact has been
\* written once for each record of the two lists and no more.
C18_ExhaustedTargetUntouched ==
    /\ \A r \in 1..Len(df) :
          Exhausted(df[r].WEB_ADRES) =>
              /\ df[r] = phase1_df[r]
              /\ \A k \in 1..Len(scraped_data) :
                    scraped_data[k].WEB_ADRES # df[r].WEB_ADRES
    /\ AfterStep3 => writes.updated = Len(landing_page_data) + Len(scraped_data)

C18_BothKindsOfExhaustion ==
    /\ AfterStep3
    /\ \E i \in 1..Len(tasks[3]) :
          /\ tasks[3][i].state = "consumed"
          /\ tasks[3][i].result[1].links = <<>>
          /\ tasks[3][i].arg.url = AddrB
    /\ \E i \in 1..Len(tasks[4]) :
          /\ tasks[4][i].arg.url = AddrA
          /\ tasks[4][i].state = "consumed"
    /\ Exhausted(AddrA)
    /\ Exhausted(AddrB)
    /\ \E r \in 1..Len(df) : df[r].WEB_ADRES = AddrA /\ df[r].ogretim_sekli # None

(***************************************************************************)
(* gather_relevant_links fetches the seed page and no other.               *)
(***************************************************************************)
\* C20: at every point of a discovery run the list urls_to_visit and the
\* set visited_urls hold nothing but the seed URL, every fetch is a fetch
\* of the seed, and the links found are in relevant_links and not in the
\* list; the run has fetched exactly one page when it returns, and what it
\* returns is what the seed page alone gives.
C20_OnlySeedFetched ==
    /\ visited_urls \subseteq {SeedUrl}
    /\ \A k \in 1..Len(urls_to_visit) :
          urls_to_visit[k] = SeedUrl /\ urls_to_visit[k] \notin relevant_links
    /\ \A k \in 1..Len(dFetches) : dFetches[k].url = SeedUrl
    /\ dState = "returned" =>
          /\ Len(dFetches) = 1
          /\ {dResult[i] : i \in 1..Len(dResult)}
                = gather_relevant_links(AddrA, dFetches[1].response)

C20_FoundLinksNotVisited ==
    /\ dState = "returned"
    /\ Cardinality(relevant_links) >= 2
    /\ visited_urls = {SeedUrl}
    /\ Len(dFetches) = 1

=============================================================================
